---- MODULE Spec2Model ----
(***************************************************************************)
(* A model of remap_keys.py: a command-line tool that reads the identity   *)
(* attributes of an input device from sysfs and writes a systemd hwdb      *)
(* entry remapping scan codes to key codes.                                *)
(*                                                                         *)
(* Python strings are sequences of one-character strings.  An Optional     *)
(* string is a record [some, val]; None is the record with some = FALSE.   *)
(***************************************************************************)
EXTENDS Integers, Sequences, FiniteSets, TLC

VARIABLES
    argv,              \* sys.argv[1:], already split into option tokens
    args,              \* the namespace returned by parser.parse_args()
    pc,                \* position of the running function
    exit,              \* how the process ended: [status, traceback]
    inputDir,          \* /sys/class/input: [exists, entries]
    outFile,           \* the file at the output path: Optional text
    ops,               \* filesystem operations performed so far, in order
    name,              \* main: name
    phys,              \* main: phys
    ev,                \* main: ev
    vendor,            \* main: vendor
    key_code_mapping,  \* main: key_code_mapping (insertion-ordered dict)
    hwdb_entry,        \* main: hwdb_entry
    stdout,            \* the device lines printed by list mode
    calls,             \* number of calls made so far to the function called on its own
    ret                \* the value returned by the function called last

vars == <<argv, args, pc, exit, inputDir, outFile, ops, name, phys, ev, vendor,
          key_code_mapping, hwdb_entry, stdout, calls, ret>>

----------------------------------------------------------------------------
(* Bounds of the model *)

MaxArgs == 3
MaxMappings == 3
MaxCalls == 2
MaxDirEntries == 2

----------------------------------------------------------------------------
(* Optional values and strings *)

None == [some |-> FALSE, val |-> <<>>]

Some(s) == [some |-> TRUE, val |-> s]

\* Python truthiness of an Optional[str]: None and "" are falsy.
Truthy(o) == o.some /\ o.val # <<>>

Whitespace == {" ", "\n", "\t", "\r"}

Digits == {"0", "1", "2", "3", "4", "5", "6", "7", "8", "9"}

RECURSIVE LStrip(_)
LStrip(s) ==
    IF s # <<>> /\ Head(s) \in Whitespace THEN LStrip(Tail(s)) ELSE s

RECURSIVE RStrip(_)
RStrip(s) ==
    IF s # <<>> /\ s[Len(s)] \in Whitespace
    THEN RStrip(SubSeq(s, 1, Len(s) - 1))
    ELSE s

\* str.strip()
Strip(s) == RStrip(LStrip(s))

StartsWith(s, p) == Len(s) >= Len(p) /\ SubSeq(s, 1, Len(p)) = p

\* p in s
Contains(s, p) ==
    \E i \in 1..(Len(s) - Len(p) + 1) : SubSeq(s, i, i + Len(p) - 1) = p

\* s[n:]
DropFirst(s, n) == IF n >= Len(s) THEN <<>> ELSE SubSeq(s, n + 1, Len(s))

\* s.split(c): the pieces of s between the occurrences of character c
RECURSIVE Split(_, _)
Split(s, c) ==
    IF \A i \in 1..Len(s) : s[i] # c
    THEN <<s>>
    ELSE LET i == CHOOSE k \in 1..Len(s) :
                     s[k] = c /\ \A j \in 1..(k - 1) : s[j] # c
         IN  <<SubSeq(s, 1, i - 1)>> \o Split(DropFirst(s, i), c)

\* The lines of a text in which every line ends with a line break.
Lines(text) ==
    LET parts == Split(text, "\n")
    IN  SubSeq(parts, 1, Len(parts) - 1)

DigitVal(c) ==
    CASE c = "0" -> 0 [] c = "1" -> 1 [] c = "2" -> 2 [] c = "3" -> 3
      [] c = "4" -> 4 [] c = "5" -> 5 [] c = "6" -> 6 [] c = "7" -> 7
      [] c = "8" -> 8 [] c = "9" -> 9

RECURSIVE DecimalValue(_)
DecimalValue(s) ==
    IF s = <<>> THEN 0
    ELSE 10 * DecimalValue(SubSeq(s, 1, Len(s) - 1)) + DigitVal(s[Len(s)])

\* int(s): surrounding whitespace is ignored, one sign is allowed, the rest
\* is decimal digits with single underscores between them; anything else
\* raises ValueError (ok = FALSE).
IntOf(s) ==
    LET t == Strip(s)
        signed == t # <<>> /\ Head(t) \in {"+", "-"}
        body == IF signed THEN Tail(t) ELSE t
        wellFormed ==
            /\ body # <<>>
            /\ \A i \in 1..Len(body) : body[i] \in Digits \cup {"_"}
            /\ body[1] # "_"
            /\ body[Len(body)] # "_"
            /\ \A i \in 1..(Len(body) - 1) : ~(body[i] = "_" /\ body[i + 1] = "_")
        digits == SelectSeq(body, LAMBDA c : c \in Digits)
        magnitude == DecimalValue(digits)
    IN  IF wellFormed
        THEN [ok |-> TRUE,
              val |-> IF signed /\ Head(t) = "-" THEN 0 - magnitude ELSE magnitude]
        ELSE [ok |-> FALSE, val |-> 0]

----------------------------------------------------------------------------
(* String literals of the program *)

S_event == <<"e","v","e","n","t">>
S_NA == <<"N","/","A">>
S_evdev_name == <<"e","v","d","e","v",":","n","a","m","e",":">>
S_phys == <<":","p","h","y","s",":">>
S_ev == <<":","e","v",":">>
S_dmi_svn == <<":","d","m","i",":","b","v","n","*",":","b","v","r","*",":","b","d","*",":","s","v","n">>
S_pn == <<":","p","n","*","\n">>
S_KEYBOARD_KEY == <<"K","E","Y","B","O","A","R","D","_","K","E","Y","_">>
DefaultOutput == <<"9","9","-","k","e","y","b","o","a","r","d",".","h","w","d","b">>

----------------------------------------------------------------------------
(* Filesystem paths and operations *)

\* Path("/sys/class/input") / event
InputPath(event) == [base |-> "/sys/class/input", node |-> event, leaf |-> ""]

\* Path("/sys/class/input") / event / "device" / path
DevicePath(event, path) ==
    [base |-> "/sys/class/input", node |-> event, leaf |-> path]

VendorPath == [base |-> "/sys/class/dmi/id/sys_vendor", node |-> <<>>, leaf |-> ""]

OutputPath(output_file) == [base |-> "", node |-> output_file, leaf |-> ""]

FsOp(op, path) == [op |-> op, path |-> path]

\* What Path.read_text() can do: raise, or return the file's text.
ReadError(e) == [err |-> e, text |-> <<>>]
ReadText(t) == [err |-> "none", text |-> t]

----------------------------------------------------------------------------
(* The functions of remap_keys.py *)

read_file(outcome) ==
    IF outcome.err = "none" THEN Some(Strip(outcome.text)) ELSE None

\* re.match(r"^event\d+$", event): "$" matches at the end of the string and
\* also just before a line break that ends the string.
EventPatternMatches(event) ==
    /\ StartsWith(event, S_event)
    /\ LET rest == DropFirst(event, Len(S_event))
           digits == IF rest # <<>> /\ rest[Len(rest)] = "\n"
                     THEN SubSeq(rest, 1, Len(rest) - 1)
                     ELSE rest
       IN  /\ digits # <<>>
           /\ \A i \in 1..Len(digits) : digits[i] \in Digits

\* Path(f"/sys/class/input/{event}").exists()
PathExists(dir, event) == dir.exists /\ event \in dir.entries

\* validate_event_device: the value returned and the filesystem operations made.
validate_event_device(event, dir) ==
    IF ~EventPatternMatches(event)
    THEN [ok |-> FALSE, ops |-> <<>>]
    ELSE [ok |-> PathExists(dir, event),
          ops |-> <<FsOp("exists", InputPath(event))>>]

\* The loop of list_available_devices over the globbed entries, in the order
\* the filesystem enumerates them; names and physs are what reading each
\* entry's attribute files does.
RECURSIVE ListLoop(_, _, _)
ListLoop(order, names, physs) ==
    IF order = <<>>
    THEN [devices |-> <<>>, ops |-> <<>>]
    ELSE LET event == Head(order)
             n == read_file(names[event])
             p == read_file(physs[event])
             rest == ListLoop(Tail(order), names, physs)
             here == IF Truthy(n)
                     THEN <<[event |-> event, name |-> n.val,
                             phys |-> IF Truthy(p) THEN p.val ELSE S_NA]>>
                     ELSE <<>>
         IN  [devices |-> here \o rest.devices,
              ops |-> <<FsOp("read_text", DevicePath(event, "name")),
                        FsOp("read_text", DevicePath(event, "phys"))>> \o rest.ops]

\* input_dir.glob("event*")
GlobEvent(dir) == {e \in dir.entries : StartsWith(e, S_event)}

list_available_devices(dir, order, names, physs) ==
    IF ~dir.exists
    THEN [devices |-> <<>>, ops |-> <<FsOp("exists", InputPath(<<>>))>>]
    ELSE LET loop == ListLoop(order, names, physs)
         IN  [devices |-> loop.devices,
              ops |-> <<FsOp("exists", InputPath(<<>>)),
                        FsOp("glob", InputPath(<<>>))>> \o loop.ops]

\* The sort key of main's devices.sort: int(x["event"][5:])
SortKey(device) == IntOf(DropFirst(device.event, 5))

\* list.sort is stable: an element goes after the elements whose key is not
\* greater than its own.
RECURSIVE InsertByKey(_, _)
InsertByKey(sorted, d) ==
    IF sorted = <<>> THEN <<d>>
    ELSE IF SortKey(Head(sorted)).val <= SortKey(d).val
         THEN <<Head(sorted)>> \o InsertByKey(Tail(sorted), d)
         ELSE <<d>> \o sorted

RECURSIVE SortDevices(_)
SortDevices(devices) ==
    IF devices = <<>> THEN <<>>
    ELSE InsertByKey(SortDevices(SubSeq(devices, 1, Len(devices) - 1)),
                     devices[Len(devices)])

\* f"  {device['event']}: {device['name']} ({device['phys']})"
DeviceLine(device) ==
    <<" ", " ">> \o device.event \o <<":", " ">> \o device.name
        \o <<" ", "(">> \o device.phys \o <<")">>

\* DictSet that drops the old pair and appends the new one, so that a key
\* written again moves to the end
DictSet_MoveToEnd(dict, key, value) ==
    Append(SelectSeq(dict, LAMBDA kv : kv[1] # key), <<key, value>>)

\* key_code_mapping[key] = value on an insertion-ordered dict: a key that is
\* already there keeps its place and takes the new value.
DictSet(dict, key, value) ==
    IF \E i \in 1..Len(dict) : dict[i][1] = key
    THEN [i \in 1..Len(dict) |->
              IF dict[i][1] = key THEN <<key, value>> ELSE dict[i]]
    ELSE Append(dict, <<key, value>>)

\* main, lines 236-240
RECURSIVE MergeMapping(_, _)
MergeMapping(dict, mapping) ==
    IF mapping = <<>> THEN dict
    ELSE MergeMapping(DictSet(dict, Head(mapping)[1], Head(mapping)[2]),
                      Tail(mapping))

\* HeaderLine with phys and ev in each other's place
HeaderLine_Swapped(n, p, e, v) ==
    S_evdev_name \o n \o S_phys \o e \o S_ev \o p \o S_dmi_svn \o v \o S_pn

\* line 100
HeaderLine(n, p, e, v) ==
    S_evdev_name \o n \o S_phys \o p \o S_ev \o e \o S_dmi_svn \o v \o S_pn

\* f" KEYBOARD_KEY_{key}={value}\n"
MappingLine(key, value) ==
    <<" ">> \o S_KEYBOARD_KEY \o key \o <<"=">> \o value \o <<"\n">>

RECURSIVE MappingLines(_)
MappingLines(dict) ==
    IF dict = <<>> THEN <<>>
    ELSE MappingLine(Head(dict)[1], Head(dict)[2]) \o MappingLines(Tail(dict))

\* get_hwdb_evdev_entry whose guard forgets the vendor
get_hwdb_evdev_entry_no_vendor(n, p, e, v, dict) ==
    IF ~Truthy(n) \/ ~Truthy(p) \/ ~Truthy(e)
    THEN None
    ELSE Some(S_evdev_name \o n.val \o S_phys \o p.val \o S_ev \o e.val
                  \o S_dmi_svn \o v.val \o S_pn \o <<>>)

\* lines 87-108
get_hwdb_evdev_entry(n, p, e, v, dict) ==
    IF ~Truthy(n) \/ ~Truthy(p) \/ ~Truthy(e) \/ ~Truthy(v)
    THEN None
    ELSE Some(HeaderLine(n.val, p.val, e.val, v.val) \o MappingLines(dict))

\* What open(output_file, "w") followed by f.write(hwdb_entry) can do: open
\* raises (the file is untouched), or open creates or truncates the file and
\* `written` characters reach it before the write raises or completes.
OpenFails(e) == [open |-> e, written |-> 0]
Opened(k) == [open |-> "ok", written |-> k]

\* write_hwdb_entry that opens the file before it looks at the entry
write_hwdb_entry_open_first(entry, output_file, file, outcome) ==
    IF outcome.open # "ok"
    THEN [ok |-> FALSE, file |-> file,
          ops |-> <<FsOp("open_w", OutputPath(output_file))>>]
    ELSE [ok |-> Truthy(entry) /\ outcome.written = Len(entry.val),
          file |-> Some(SubSeq(entry.val, 1, outcome.written)),
          ops |-> <<FsOp("open_w", OutputPath(output_file))>>]

\* write_hwdb_entry: the value returned, the file afterwards and the
\* filesystem operations made.
write_hwdb_entry(entry, output_file, file, outcome) ==
    IF ~Truthy(entry)
    THEN [ok |-> FALSE, file |-> file, ops |-> <<>>]
    ELSE IF outcome.open # "ok"
    THEN [ok |-> FALSE, file |-> file,
          ops |-> <<FsOp("open_w", OutputPath(output_file))>>]
    ELSE [ok |-> outcome.written = Len(entry.val),
          file |-> Some(SubSeq(entry.val, 1, outcome.written)),
          ops |-> <<FsOp("open_w", OutputPath(output_file))>>]

\* parse_mapping splitting at the first "=" only, as value.split("=", 1) would
parse_mapping_maxsplit(value) ==
    LET parts == Split(value, "=")
    IN  IF Len(parts) >= 2
        THEN [ok |-> TRUE,
              pair |-> <<parts[1], DropFirst(value, Len(parts[1]) + 1)>>]
        ELSE [ok |-> FALSE, pair |-> <<>>]

\* parse_mapping, the type= of --mapping
parse_mapping(value) ==
    LET parts == Split(value, "=")
    IN  IF Len(parts) = 2
        THEN [ok |-> TRUE, pair |-> <<parts[1], parts[2]>>]
        ELSE [ok |-> FALSE, pair |-> <<>>]

\* The namespace before any argument is consumed (the arguments' defaults).
DefaultArgs ==
    [list_devices |-> FALSE, device |-> None,
     mapping |-> [some |-> FALSE, val |-> <<>>], output |-> DefaultOutput]

ParseExit(status) == [kind |-> "exit", status |-> status, ns |-> DefaultArgs]

\* parser.parse_args(): the arguments are consumed from left to right.  -h
\* prints the help and exits 0 where it stands; an argument error exits 2
\* where it is met; a surplus positional is reported after the last argument.
RECURSIVE ParseArgs(_, _, _)
ParseArgs(tokens, ns, extras) ==
    IF tokens = <<>>
    THEN IF extras THEN ParseExit(2) ELSE [kind |-> "ok", status |-> 0, ns |-> ns]
    ELSE LET t == Head(tokens)
         IN  CASE t.opt = "-h" -> ParseExit(0)
               [] t.opt = "--list-devices" ->
                    IF ns.device.some
                    THEN ParseExit(2)
                    ELSE ParseArgs(Tail(tokens),
                                   [ns EXCEPT !.list_devices = TRUE], extras)
               [] t.opt = "device" ->
                    IF ns.device.some
                    THEN ParseArgs(Tail(tokens), ns, TRUE)
                    ELSE IF ns.list_devices
                    THEN ParseExit(2)
                    ELSE ParseArgs(Tail(tokens),
                                   [ns EXCEPT !.device = Some(t.val)], extras)
               [] t.opt = "--mapping" ->
                    LET m == parse_mapping(t.val)
                    IN  IF ~m.ok
                        THEN ParseExit(2)
                        ELSE ParseArgs(Tail(tokens),
                                 [ns EXCEPT !.mapping =
                                     [some |-> TRUE, val |-> Append(@.val, m.pair)]],
                                 extras)
               [] t.opt = "--output" ->
                    ParseArgs(Tail(tokens), [ns EXCEPT !.output = t.val], extras)


----------------------------------------------------------------------------
(* The environment: command lines and filesystem contents *)

S_event2 == <<"e","v","e","n","t","2">>
S_event10 == <<"e","v","e","n","t","1","0">>
S_eventX == <<"e","v","e","n","t","X">>
S_mouse0 == <<"m","o","u","s","e","0">>

\* Command-line tokens: an option with its value, or the positional device.
Token(opt, val) == [opt |-> opt, val |-> val]

DeviceArgs == {S_event2, S_eventX}

GoodMappingArgs == {<<"1","d","=","a">>}

\* --mapping values without "=" and with two of them
BadMappingArgs == {<<"1","a">>, <<"1","=","a","=","b">>}

OutputArgs == {<<"o">>}

Tokens ==
    {Token("-h", <<>>), Token("--list-devices", <<>>)}
        \cup {Token("device", d) : d \in DeviceArgs}
        \cup {Token("--mapping", m) : m \in GoodMappingArgs \cup BadMappingArgs}
        \cup {Token("--output", o) : o \in OutputArgs}

SeqsUpTo(S, n) == UNION {[1..k -> S] : k \in 0..n}

\* The names /sys/class/input may hold.
DirNames == {S_event2, S_event10, S_eventX, S_mouse0}

NoInputDir == [exists |-> FALSE, entries |-> {}]

InputDirs ==
    {NoInputDir} \cup {[exists |-> TRUE, entries |-> E] :
                        E \in {D \in SUBSET DirNames : Cardinality(D) <= MaxDirEntries}}

\* The text of an attribute file that is there and not blank.
FileText(leaf) ==
    CASE leaf = "name" -> <<"k","b","d","\n">>
      [] leaf = "phys" -> <<"u","s","b","\n">>
      [] leaf = "capabilities/ev" -> <<"1","3","\n">>
      [] OTHER -> <<"D","e","l","l","\n">>

\* What reading an attribute file can do: the file is missing, blank, or
\* holds its text.
ReadOutcomes(leaf) ==
    {ReadError("FileNotFoundError"), ReadText(<<" ","\n">>), ReadText(FileText(leaf))}

OpenErrors == {"FileNotFoundError", "PermissionError", "IsADirectoryError"}

WriteOutcomes(entry) ==
    {OpenFails(e) : e \in OpenErrors} \cup {Opened(k) : k \in 0..Len(entry.val)}

\* What the output path holds before the run: nothing, or an older file.
OldText == <<"o","l","d","\n">>

OutFiles == {None, Some(OldText)}

Perms(S) ==
    {f \in [1..Cardinality(S) -> S] : \A i, j \in DOMAIN f : i # j => f[i] # f[j]}

Running == [status |-> 0 - 1, traceback |-> FALSE]

Exited(status) == [status |-> status, traceback |-> FALSE]

\* An exception nothing catches (the ValueError of int() in the sort key of
\* line 192): the interpreter prints the traceback and the process ends with
\* status 1.
Crashed == [status |-> 1, traceback |-> TRUE]

NoRet == [fn |-> "none"]

----------------------------------------------------------------------------
(* main() *)

Init ==
    /\ argv \in SeqsUpTo(Tokens, MaxArgs)
    /\ args = DefaultArgs
    /\ pc = "parse_args"
    /\ exit = Running
    /\ inputDir \in InputDirs
    /\ outFile = None
    /\ ops = <<>>
    /\ name = None
    /\ phys = None
    /\ ev = None
    /\ vendor = None
    /\ key_code_mapping = <<>>
    /\ hwdb_entry = None
    /\ stdout = <<>>
    /\ calls = 0
    /\ ret = NoRet

\* lines 138-182
ParseArguments ==
    /\ pc = "parse_args"
    /\ LET r == ParseArgs(argv, DefaultArgs, FALSE)
       IN  IF r.kind = "exit"
           THEN /\ pc' = "parser_exit"
                /\ exit' = Exited(r.status)
                /\ args' = args
           ELSE /\ pc' = "main"
                /\ exit' = exit
                /\ args' = r.ns
    /\ UNCHANGED <<argv, inputDir, outFile, ops, name, phys, ev, vendor,
                   key_code_mapping, hwdb_entry, stdout, calls, ret>>

\* lines 185-197
ListDevices ==
    /\ pc = "main"
    /\ args.list_devices
    /\ \E order \in Perms(GlobEvent(inputDir)) :
       \E names \in [GlobEvent(inputDir) -> ReadOutcomes("name")] :
       \E physs \in [GlobEvent(inputDir) -> ReadOutcomes("phys")] :
          LET r == list_available_devices(inputDir, order, names, physs)
          IN  /\ ops' = ops \o r.ops
              /\ ret' = [fn |-> "list_available_devices",
                         named |-> {e \in GlobEvent(inputDir) :
                                       Truthy(read_file(names[e]))},
                         withPhys |-> {e \in GlobEvent(inputDir) :
                                          Truthy(read_file(physs[e]))}]
              /\ IF r.devices = <<>>
                 THEN /\ exit' = Exited(1)
                      /\ stdout' = stdout
                      /\ pc' = "returned"
                 ELSE IF \E i \in 1..Len(r.devices) : ~SortKey(r.devices[i]).ok
                 THEN /\ exit' = Crashed
                      /\ stdout' = stdout
                      /\ pc' = "raised"
                 ELSE /\ exit' = Exited(0)
                      /\ stdout' = [i \in 1..Len(r.devices) |->
                                       DeviceLine(SortDevices(r.devices)[i])]
                      /\ pc' = "returned"
    /\ UNCHANGED <<argv, args, inputDir, outFile, name, phys, ev, vendor,
                   key_code_mapping, hwdb_entry, calls>>

\* lines 200-202
NoDevice ==
    /\ pc = "main"
    /\ ~args.list_devices
    /\ ~Truthy(args.device)
    /\ pc' = "returned"
    /\ exit' = Exited(1)
    /\ UNCHANGED <<argv, args, inputDir, outFile, ops, name, phys, ev, vendor,
                   key_code_mapping, hwdb_entry, stdout, calls, ret>>

\* lines 205-207
ValidateDevice ==
    /\ pc = "main"
    /\ ~args.list_devices
    /\ Truthy(args.device)
    /\ LET r == validate_event_device(args.device.val, inputDir)
       IN  /\ ops' = ops \o r.ops
           /\ ret' = [fn |-> "validate_event_device", ok |-> r.ok]
           /\ IF r.ok
              THEN pc' = "check_mapping" /\ exit' = exit
              ELSE pc' = "returned" /\ exit' = Exited(1)
    /\ UNCHANGED <<argv, args, inputDir, outFile, name, phys, ev, vendor,
                   key_code_mapping, hwdb_entry, stdout, calls>>

\* not args.mapping: None and the empty list are falsy
NoMapping(a) == ~a.mapping.some \/ a.mapping.val = <<>>

\* CheckMapping without its return: a run without --mapping goes on
CheckMapping_NoReturn ==
    /\ pc = "check_mapping"
    /\ pc' = "get_name"
    /\ UNCHANGED <<argv, args, exit, inputDir, outFile, ops, name, phys, ev,
                   vendor, key_code_mapping, hwdb_entry, stdout, calls, ret>>

\* lines 210-212
CheckMapping ==
    /\ pc = "check_mapping"
    /\ IF NoMapping(args) /\ ~args.list_devices
       THEN pc' = "returned" /\ exit' = Exited(1)
       ELSE pc' = "get_name" /\ exit' = exit
    /\ UNCHANGED <<argv, args, inputDir, outFile, ops, name, phys, ev, vendor,
                   key_code_mapping, hwdb_entry, stdout, calls, ret>>

\* lines 215-218
GetName ==
    /\ pc = "get_name"
    /\ \E o \in ReadOutcomes("name") :
          /\ name' = read_file(o)
          /\ IF Truthy(read_file(o))
             THEN pc' = "get_phys" /\ exit' = exit
             ELSE pc' = "returned" /\ exit' = Exited(1)
    /\ ops' = Append(ops, FsOp("read_text", DevicePath(args.device.val, "name")))
    /\ UNCHANGED <<argv, args, inputDir, outFile, phys, ev, vendor,
                   key_code_mapping, hwdb_entry, stdout, calls, ret>>

\* GetPhys without its return: a missing phys does not end the run
GetPhys_NoReturn ==
    /\ pc = "get_phys"
    /\ \E o \in ReadOutcomes("phys") : phys' = read_file(o)
    /\ pc' = "get_ev"
    /\ ops' = Append(ops, FsOp("read_text", DevicePath(args.device.val, "phys")))
    /\ UNCHANGED <<argv, args, exit, inputDir, outFile, name, ev, vendor,
                   key_code_mapping, hwdb_entry, stdout, calls, ret>>

\* lines 220-223
GetPhys ==
    /\ pc = "get_phys"
    /\ \E o \in ReadOutcomes("phys") :
          /\ phys' = read_file(o)
          /\ IF Truthy(read_file(o))
             THEN pc' = "get_ev" /\ exit' = exit
             ELSE pc' = "returned" /\ exit' = Exited(1)
    /\ ops' = Append(ops, FsOp("read_text", DevicePath(args.device.val, "phys")))
    /\ UNCHANGED <<argv, args, inputDir, outFile, name, ev, vendor,
                   key_code_mapping, hwdb_entry, stdout, calls, ret>>

\* lines 225-228
GetEv ==
    /\ pc = "get_ev"
    /\ \E o \in ReadOutcomes("capabilities/ev") :
          /\ ev' = read_file(o)
          /\ IF Truthy(read_file(o))
             THEN pc' = "get_vendor" /\ exit' = exit
             ELSE pc' = "returned" /\ exit' = Exited(1)
    /\ ops' = Append(ops, FsOp("read_text",
                               DevicePath(args.device.val, "capabilities/ev")))
    /\ UNCHANGED <<argv, args, inputDir, outFile, name, phys, vendor,
                   key_code_mapping, hwdb_entry, stdout, calls, ret>>

\* lines 230-233
GetVendor ==
    /\ pc = "get_vendor"
    /\ \E o \in ReadOutcomes("sys_vendor") :
          /\ vendor' = read_file(o)
          /\ IF Truthy(read_file(o))
             THEN pc' = "merge" /\ exit' = exit
             ELSE pc' = "returned" /\ exit' = Exited(1)
    /\ ops' = Append(ops, FsOp("read_text", VendorPath))
    /\ UNCHANGED <<argv, args, inputDir, outFile, name, phys, ev,
                   key_code_mapping, hwdb_entry, stdout, calls, ret>>

\* lines 236-240
MergeMappings ==
    /\ pc = "merge"
    /\ key_code_mapping' =
           IF NoMapping(args) THEN <<>> ELSE MergeMapping(<<>>, args.mapping.val)
    /\ pc' = "build"
    /\ UNCHANGED <<argv, args, exit, inputDir, outFile, ops, name, phys, ev,
                   vendor, hwdb_entry, stdout, calls, ret>>

\* lines 243-246
BuildEntry ==
    /\ pc = "build"
    /\ hwdb_entry' = get_hwdb_evdev_entry(name, phys, ev, vendor, key_code_mapping)
    /\ IF Truthy(get_hwdb_evdev_entry(name, phys, ev, vendor, key_code_mapping))
       THEN pc' = "write" /\ exit' = exit
       ELSE pc' = "returned" /\ exit' = Exited(1)
    /\ UNCHANGED <<argv, args, inputDir, outFile, ops, name, phys, ev, vendor,
                   key_code_mapping, stdout, calls, ret>>

\* lines 248-261
WriteEntry ==
    /\ pc = "write"
    /\ \E outcome \in WriteOutcomes(hwdb_entry) :
          LET r == write_hwdb_entry(hwdb_entry, args.output, outFile, outcome)
          IN  /\ outFile' = r.file
              /\ ops' = ops \o r.ops
              /\ exit' = IF r.ok THEN Exited(0) ELSE Exited(1)
    /\ pc' = "returned"
    /\ UNCHANGED <<argv, args, inputDir, name, phys, ev, vendor,
                   key_code_mapping, hwdb_entry, stdout, calls, ret>>

Next ==
    \/ ParseArguments
    \/ ListDevices
    \/ NoDevice
    \/ ValidateDevice
    \/ CheckMapping
    \/ GetName
    \/ GetPhys
    \/ GetEv
    \/ GetVendor
    \/ MergeMappings
    \/ BuildEntry
    \/ WriteEntry

Spec == Init /\ [][Next]_vars


----------------------------------------------------------------------------
(* Properties of main() *)

Finished == pc \in {"parser_exit", "returned", "raised"}

\* The attribute reads made so far, in order.
Fetches == SelectSeq(ops, LAMBDA o : o.op = "read_text")

\* The paths remap mode reads, in the order the specification gives.
FetchOrder ==
    <<DevicePath(args.device.val, "name"), DevicePath(args.device.val, "phys"),
      DevicePath(args.device.val, "capabilities/ev"), VendorPath>>

Fetched == <<name, phys, ev, vendor>>

OpenedForWrite == \E i \in 1..Len(ops) : ops[i].op = "open_w"

Built == hwdb_entry # None

\* C1: in remap mode the attributes are fetched in the order name, phys, ev,
\* vendor, each at most once, and the first fetch that yields nothing ends
\* the run with status 1: no later fetch, no entry built, no file written.
C1_FetchOrderAndAbort ==
    ~args.list_devices =>
        /\ Len(Fetches) <= 4
        /\ \A i \in 1..Len(Fetches) :
              /\ Fetches[i].path = FetchOrder[i]
              /\ ~Truthy(Fetched[i]) =>
                    /\ i = Len(Fetches)
                    /\ pc = "returned"
                    /\ exit = Exited(1)
                    /\ ~Built
                    /\ ~OpenedForWrite
                    /\ outFile = None

\* A run that read name, found phys missing and ended there.
C1_Witness ==
    /\ pc = "returned"
    /\ Len(Fetches) = 2
    /\ Truthy(name)
    /\ ~Truthy(phys)
    /\ exit = Exited(1)

\* What must have held before an entry is built or the output file opened.
BuildPreconditions ==
    /\ ret.fn = "validate_event_device"
    /\ ret.ok
    /\ ~NoMapping(args)
    /\ Truthy(name)
    /\ Truthy(phys)
    /\ Truthy(ev)
    /\ Truthy(vendor)

\* C2 as stated: an entry is built and the output file opened only after
\* validation succeeded, a mapping was given and the four attributes were
\* read non-empty; list-mode runs, no-mode runs and every aborted remap run
\* never create or modify the output file.
C2_AsStated ==
    /\ (Built \/ OpenedForWrite) => BuildPreconditions
    /\ outFile # None => (pc = "returned" /\ exit = Exited(0) /\ ~args.list_devices)

\* C2 amended: as stated, but of the aborted remap runs only those that
\* ended before the write step leave the output file alone; a run whose write
\* fails after the file was opened may have created or truncated it.
C2_BuildAndWriteGuarded ==
    /\ (Built \/ OpenedForWrite) => BuildPreconditions
    /\ ~OpenedForWrite => outFile = None

\* A remap run that built its entry and opened the output file.
C2_Witness ==
    /\ pc = "returned"
    /\ Built
    /\ OpenedForWrite
    /\ outFile = hwdb_entry

ListFoundDevice ==
    /\ args.list_devices
    /\ ret.fn = "list_available_devices"
    /\ ret.named # {}

RemapCompleted ==
    /\ ~args.list_devices
    /\ BuildPreconditions
    /\ Truthy(hwdb_entry)
    /\ outFile = hwdb_entry

\* C3: a run that gets past argument parsing ends with status 0 or 1 and
\* never with an unhandled exception; the status is 0 exactly when list mode
\* found a named device or remap mode completed every step, whatever the
\* input-device directory holds.
C3_CleanExit ==
    pc \in {"returned", "raised"} =>
        /\ pc = "returned"
        /\ ~exit.traceback
        /\ exit.status \in {0, 1}
        /\ exit.status = 0 <=> (ListFoundDevice \/ RemapCompleted)

EqualsSigns(value) == Cardinality({i \in 1..Len(value) : value[i] = "="})

\* A --mapping value that is not KEY=VALUE with exactly one "=".
Malformed(token) == token.opt = "--mapping" /\ EqualsSigns(token.val) # 1

HasMalformedMapping == \E i \in 1..Len(argv) : Malformed(argv[i])

HelpBeforeMalformed ==
    \E i \in 1..Len(argv) :
        /\ argv[i].opt = "-h"
        /\ \A j \in 1..(i - 1) : ~Malformed(argv[j])

NoDeviceLogic ==
    /\ pc \in {"parse_args", "parser_exit"}
    /\ ops = <<>>
    /\ stdout = <<>>
    /\ outFile = None

\* C7 as stated: a run with a malformed --mapping value ends in argument
\* parsing with a non-zero status, before any device logic, whatever the
\* other arguments are.
C7_AsStated ==
    HasMalformedMapping =>
        /\ NoDeviceLogic
        /\ pc = "parser_exit" => exit.status # 0

\* C7 amended: such a run ends in argument parsing before any device logic;
\* its status is non-zero unless -h stands before the first malformed
\* mapping, where the parser prints the help and may exit 0.
C7_MalformedMappingStopsAtParsing ==
    HasMalformedMapping =>
        /\ NoDeviceLogic
        /\ (pc = "parser_exit" /\ ~HelpBeforeMalformed) => exit.status # 0

\* A run with a device and a malformed mapping, ended by the parser.
C7_Witness ==
    /\ HasMalformedMapping
    /\ \E i \in 1..Len(argv) : argv[i].opt = "device"
    /\ pc = "parser_exit"
    /\ exit = Exited(2)

\* The numeric suffix of an event identifier.
EventNumber(event) == IntOf(DropFirst(event, Len(S_event))).val

\* The line list mode is to print for a named entry.
ExpectedLine(event) ==
    <<" ", " ">> \o event \o <<":", " ", "k", "b", "d", " ", "(">>
        \o (IF event \in ret.withPhys THEN <<"u", "s", "b">> ELSE S_NA)
        \o <<")">>

\* C8: list mode prints exactly one line for each entry matching event*
\* whose name is present and non-empty, in ascending order of the numeric
\* suffix, whatever order the filesystem enumerated them in.
C8_ListedInNumericOrder ==
    (Finished /\ ret.fn = "list_available_devices") =>
        \E order \in Perms(ret.named) :
            /\ \A i, j \in DOMAIN order :
                  i < j => EventNumber(order[i]) <= EventNumber(order[j])
            /\ stdout = [i \in DOMAIN order |-> ExpectedLine(order[i])]


----------------------------------------------------------------------------
(* main() from the merge of the mappings on, for longer --mapping lists *)

MappingKeys == {<<"1">>, <<"1","d">>}

MappingValues == {<<"a">>, <<"b">>}

MappingPairs == {<<k, v>> : k \in MappingKeys, v \in MappingValues}

\* The command line  event2 --mapping K=V ...
RemapArgv(pairs) ==
    <<Token("device", S_event2)>>
        \o [i \in 1..Len(pairs) |->
               Token("--mapping", pairs[i][1] \o <<"=">> \o pairs[i][2])]

\* The state of a remap run of event2 that has read its four attributes.
InitEntry ==
    /\ \E pairs \in SeqsUpTo(MappingPairs, MaxMappings) \ {<<>>} :
          /\ argv = RemapArgv(pairs)
          /\ args = ParseArgs(RemapArgv(pairs), DefaultArgs, FALSE).ns
    /\ pc = "merge"
    /\ exit = Running
    /\ inputDir = [exists |-> TRUE, entries |-> {S_event2}]
    /\ outFile = None
    /\ ops = <<FsOp("exists", InputPath(S_event2)),
               FsOp("read_text", DevicePath(S_event2, "name")),
               FsOp("read_text", DevicePath(S_event2, "phys")),
               FsOp("read_text", DevicePath(S_event2, "capabilities/ev")),
               FsOp("read_text", VendorPath)>>
    /\ name = read_file(ReadText(FileText("name")))
    /\ phys = read_file(ReadText(FileText("phys")))
    /\ ev = read_file(ReadText(FileText("capabilities/ev")))
    /\ vendor = read_file(ReadText(FileText("sys_vendor")))
    /\ key_code_mapping = <<>>
    /\ hwdb_entry = None
    /\ stdout = <<>>
    /\ calls = 0
    /\ ret = [fn |-> "validate_event_device", ok |-> TRUE]

NextEntry ==
    \/ MergeMappings
    \/ BuildEntry
    \/ WriteEntry

SpecEntry == InitEntry /\ [][NextEntry]_vars

\* The distinct scan codes of a list of pairs, in the order they first appear.
RECURSIVE FirstSeen(_)
FirstSeen(pairs) ==
    IF pairs = <<>> THEN <<>>
    ELSE LET before == FirstSeen(SubSeq(pairs, 1, Len(pairs) - 1))
             k == pairs[Len(pairs)][1]
         IN  IF \E i \in 1..Len(before) : before[i] = k
             THEN before
             ELSE Append(before, k)

\* The value of the last pair for scan code k.
LastValue(pairs, k) ==
    LET last == CHOOSE i \in 1..Len(pairs) :
                    /\ pairs[i][1] = k
                    /\ \A j \in (i + 1)..Len(pairs) : pairs[j][1] # k
    IN  pairs[last][2]

KeyLine(k, v) ==
    <<" ","K","E","Y","B","O","A","R","D","_","K","E","Y","_">> \o k \o <<"=">> \o v

\* C4: a scan code given more than once has one pair in the key mapping and
\* one KEYBOARD_KEY_ line in the entry, carrying the value given last, at the
\* place where the scan code first appeared; there are as many mapping lines
\* as distinct scan codes.
C4_LastValueFirstPosition ==
    (pc \in {"write", "returned"} /\ Built) =>
        LET given == args.mapping.val
            keys == FirstSeen(given)
            lines == Tail(Lines(hwdb_entry.val))
        IN  /\ Len(key_code_mapping) = Len(keys)
            /\ Len(lines) = Len(keys)
            /\ \A i \in 1..Len(keys) :
                  /\ key_code_mapping[i] = <<keys[i], LastValue(given, keys[i])>>
                  /\ lines[i] = KeyLine(keys[i], LastValue(given, keys[i]))
            /\ \A k \in MappingKeys :
                  Cardinality({i \in 1..Len(lines) :
                                  StartsWith(lines[i], KeyLine(k, <<>>))})
                      = IF \E j \in 1..Len(given) : given[j][1] = k THEN 1 ELSE 0

\* An entry built from K=.., J=.., K=.. with two different values for K.
C4_Witness ==
    /\ pc = "write"
    /\ Built
    /\ Len(args.mapping.val) = 3
    /\ args.mapping.val[1][1] = args.mapping.val[3][1]
    /\ args.mapping.val[1][1] # args.mapping.val[2][1]
    /\ args.mapping.val[1][2] # args.mapping.val[3][2]

----------------------------------------------------------------------------
(* get_hwdb_evdev_entry called on its own *)

S_KEYBOARD_KEY_name == <<"K","E","Y","B","O","A","R","D","_","K","E","Y","_">>

\* Absent, empty, plain, holding the mapping prefix, holding a line break.
IdentityInputs ==
    {None, Some(<<>>), Some(<<"k","b","d">>), Some(S_KEYBOARD_KEY_name),
     Some(<<"a","\n","b">>)}

DictInputs ==
    {<<>>, <<<<<<"1","d">>, <<"a">>>>>>,
     <<<<<<"1","d">>, <<"a">>>>, <<<<"2">>, <<"b">>>>>>}

InitBuild ==
    /\ argv = <<>>
    /\ args = DefaultArgs
    /\ pc = "call"
    /\ exit = Running
    /\ inputDir = NoInputDir
    /\ outFile = None
    /\ ops = <<>>
    /\ name \in IdentityInputs
    /\ phys \in IdentityInputs
    /\ ev \in IdentityInputs
    /\ vendor \in IdentityInputs
    /\ key_code_mapping \in DictInputs
    /\ hwdb_entry = None
    /\ stdout = <<>>
    /\ calls = 0
    /\ ret = NoRet

CallBuild ==
    /\ pc = "call"
    /\ ret' = [fn |-> "get_hwdb_evdev_entry",
               text |-> get_hwdb_evdev_entry(name, phys, ev, vendor,
                                             key_code_mapping)]
    /\ pc' = "done"
    /\ calls' = calls + 1
    /\ UNCHANGED <<argv, args, exit, inputDir, outFile, ops, name, phys, ev,
                   vendor, key_code_mapping, hwdb_entry, stdout>>

SpecBuild == InitBuild /\ [][CallBuild]_vars

Missing(o) == o = None \/ o.val = <<>>

\* C5: get_hwdb_evdev_entry returns None if and only if one of name, phys,
\* ev, vendor is empty or absent, for every mapping.
C5_AbsentIffIdentityMissing ==
    (pc = "done" /\ ret.fn = "get_hwdb_evdev_entry") =>
        (ret.text = None <=>
            (Missing(name) \/ Missing(phys) \/ Missing(ev) \/ Missing(vendor)))

\* name, phys and ev are there, the vendor is empty, the mapping is empty.
C5_Witness ==
    /\ pc = "done"
    /\ ~Missing(name)
    /\ ~Missing(phys)
    /\ ~Missing(ev)
    /\ vendor = Some(<<>>)
    /\ key_code_mapping = <<>>
    /\ ret.text = None

\* The header the specification gives, without its line break.
ExpectedHeader(n, p, e, v) ==
    <<"e","v","d","e","v",":","n","a","m","e",":">> \o n
        \o <<":","p","h","y","s",":">> \o p
        \o <<":","e","v",":">> \o e
        \o <<":","d","m","i",":","b","v","n","*",":","b","v","r","*",":","b","d","*",":","s","v","n">> \o v
        \o <<":","p","n","*">>

MappingPrefix == <<"K","E","Y","B","O","A","R","D","_","K","E","Y","_">>

BuiltFromFour ==
    /\ pc = "done"
    /\ ret.fn = "get_hwdb_evdev_entry"
    /\ ~Missing(name)
    /\ ~Missing(phys)
    /\ ~Missing(ev)
    /\ ~Missing(vendor)

NoLineBreak(o) == ~Contains(o.val, <<"\n">>)

\* C6 as stated: for any four non-empty strings the first line of the entry
\* is the template with the four values inserted verbatim, and that line
\* never contains KEYBOARD_KEY_.
C6_AsStated ==
    BuiltFromFour =>
        /\ ret.text # None
        /\ Lines(ret.text.val)[1] =
               ExpectedHeader(name.val, phys.val, ev.val, vendor.val)
        /\ ~Contains(Lines(ret.text.val)[1], MappingPrefix)

\* C6 amended: for any four non-empty strings the entry begins with the
\* template, the four values inserted verbatim, and a line break; when no
\* value holds a line break this is the entry's first line, and it contains
\* KEYBOARD_KEY_ exactly when one of the four values does.
C6_HeaderVerbatim ==
    BuiltFromFour =>
        /\ ret.text # None
        /\ StartsWith(ret.text.val,
               ExpectedHeader(name.val, phys.val, ev.val, vendor.val) \o <<"\n">>)
        /\ (NoLineBreak(name) /\ NoLineBreak(phys) /\ NoLineBreak(ev)
                /\ NoLineBreak(vendor)) =>
              /\ Lines(ret.text.val)[1] =
                     ExpectedHeader(name.val, phys.val, ev.val, vendor.val)
              /\ Contains(Lines(ret.text.val)[1], MappingPrefix) <=>
                     \E o \in {name, phys, ev, vendor} :
                         Contains(o.val, MappingPrefix)

\* An entry built for a device named KEYBOARD_KEY_ with a mapping.
C6_Witness ==
    /\ BuiltFromFour
    /\ name.val = MappingPrefix
    /\ phys.val = <<"k","b","d">>
    /\ NoLineBreak(ev)
    /\ NoLineBreak(vendor)
    /\ key_code_mapping # <<>>

----------------------------------------------------------------------------
(* validate_event_device called on its own *)

ValidateInputs ==
    {<<"e","v","e","n","t","7">>, <<"e","v","e","n","t","1","0">>,
     <<"e","v","e","n","t">>, <<"e","v","e","n","t","X">>, <<"7">>,
     <<"e","v","e","n","t","7","x">>, <<"E","v","e","n","t","7">>,
     <<" ","e","v","e","n","t","7">>, <<"e","v","e","n","t","7","\n">>}

ValidateDirNames ==
    {<<"e","v","e","n","t","7">>, <<"e","v","e","n","t","X">>, <<"7">>,
     <<"e","v","e","n","t">>, <<"e","v","e","n","t","7","\n">>}

InitValidate ==
    /\ argv = <<>>
    /\ \E e \in ValidateInputs : args = [DefaultArgs EXCEPT !.device = Some(e)]
    /\ pc = "call"
    /\ exit = Running
    /\ inputDir \in {NoInputDir}
           \cup {[exists |-> TRUE, entries |-> E] : E \in SUBSET ValidateDirNames}
    /\ outFile = None
    /\ ops = <<>>
    /\ name = None
    /\ phys = None
    /\ ev = None
    /\ vendor = None
    /\ key_code_mapping = <<>>
    /\ hwdb_entry = None
    /\ stdout = <<>>
    /\ calls = 0
    /\ ret = NoRet

CallValidate ==
    /\ pc = "call"
    /\ LET r == validate_event_device(args.device.val, inputDir)
       IN  /\ ret' = [fn |-> "validate_event_device", ok |-> r.ok]
           /\ ops' = ops \o r.ops
    /\ pc' = "done"
    /\ calls' = calls + 1
    /\ UNCHANGED <<argv, args, exit, inputDir, outFile, name, phys, ev, vendor,
                   key_code_mapping, hwdb_entry, stdout>>

SpecValidate == InitValidate /\ [][CallValidate]_vars

\* The word "event", then one or more decimal digits, and nothing else.
WellFormedEvent(e) ==
    /\ Len(e) > 5
    /\ SubSeq(e, 1, 5) = <<"e","v","e","n","t">>
    /\ \A i \in 6..Len(e) : e[i] \in Digits

\* C9: validate_event_device returns true if and only if the identifier is
\* "event" followed by one or more decimal digits and nothing else and its
\* directory exists under /sys/class/input; the existence check is not
\* consulted for a malformed identifier.
C9_ValidIffWellFormedAndPresent ==
    (pc = "done" /\ ret.fn = "validate_event_device") =>
        /\ ret.ok <=> (/\ WellFormedEvent(args.device.val)
                       /\ inputDir.exists
                       /\ args.device.val \in inputDir.entries)
        /\ ~WellFormedEvent(args.device.val) => ops = <<>>

----------------------------------------------------------------------------
(* write_hwdb_entry called on its own, several times *)

WriteInputs ==
    {None, Some(<<>>), Some(<<"X","\n">>),
     Some(HeaderLine(<<"k">>, <<"u">>, <<"1">>, <<"D">>))}

InitWrite ==
    /\ argv = <<>>
    /\ args = DefaultArgs
    /\ pc = "call"
    /\ exit = Running
    /\ inputDir = NoInputDir
    /\ outFile \in OutFiles
    /\ ops = <<>>
    /\ name = None
    /\ phys = None
    /\ ev = None
    /\ vendor = None
    /\ key_code_mapping = <<>>
    /\ hwdb_entry = None
    /\ stdout = <<>>
    /\ calls = 0
    /\ ret = NoRet

\* One call; ret keeps what the file held before it.
CallWrite ==
    /\ pc = "call"
    /\ calls < MaxCalls
    /\ \E entry \in WriteInputs :
       \E outcome \in WriteOutcomes(entry) :
          LET r == write_hwdb_entry(entry, args.output, outFile, outcome)
          IN  /\ hwdb_entry' = entry
              /\ outFile' = r.file
              /\ ops' = ops \o r.ops
              /\ ret' = [fn |-> "write_hwdb_entry", ok |-> r.ok,
                         before |-> outFile, opsBefore |-> ops]
    /\ calls' = calls + 1
    /\ UNCHANGED <<argv, args, pc, exit, inputDir, name, phys, ev, vendor,
                   key_code_mapping, stdout>>

SpecWrite == InitWrite /\ [][CallWrite]_vars

\* C10: write_hwdb_entry given an absent or empty entry returns failure and
\* leaves the file at the target path as it was (not created, not truncated,
\* not modified), however often the call is repeated.
C10_EmptyEntryWritesNothing ==
    (ret.fn = "write_hwdb_entry" /\ Missing(hwdb_entry)) =>
        /\ ~ret.ok
        /\ outFile = ret.before
        /\ ops = ret.opsBefore

\* Two calls with nothing to write, the older file still in place.
C10_Witness ==
    /\ calls = 2
    /\ ret.fn = "write_hwdb_entry"
    /\ Missing(hwdb_entry)
    /\ ops = <<>>
    /\ outFile = Some(OldText)


====
